---- MODULE Spec2Model ----
(***************************************************************************)
(* Model of src/model.py: the Cognos vs Power BI validator.                *)
(*                                                                         *)
(* Text is modelled as a sequence of one-character strings, so that        *)
(* strip, lstrip, isdigit, int, str, upper, join, "in" and endswith are    *)
(* computed character by character as Python computes them.                *)
(*                                                                         *)
(* A cell value is a record [t, s, n]: t is the Python type ("str", "int", *)
(* "bool", "nan"), s the text of a str, n the number of an int or bool.    *)
(***************************************************************************)
EXTENDS Integers, Sequences, FiniteSets, TLC

VARIABLES
    pc,                 \* position of the running call
    val, result,        \* strip_leading_zeros: argument and returned value
    uploaded_file,      \* clean_numeric_excel: the uploaded workbook
    fs,                 \* clean_numeric_excel: temporary files that exist
    temp_path,          \* clean_numeric_excel: name of the staged file
    xls,                \* clean_numeric_excel: sheets read from the file
    cleaned_data,       \* clean_numeric_excel: the returned dict
    cognos_df, pbi_df,  \* generate_validation_report: the two datasets
    dims,               \* generate_validation_report: selected dimensions
    all_measures,       \* generate_validation_report: the Measure Set
    cognos_agg, pbi_agg,\* generate_validation_report: aggregated tables
    validation_report,  \* generate_validation_report: reconciliation table
    notes,              \* generate_validation_report: st.warning / st.info calls
    diff_checker        \* generate_diff_checker: the summary table

vars == <<pc, val, result, uploaded_file, fs, temp_path, xls, cleaned_data,
          cognos_df, pbi_df, dims, all_measures, cognos_agg, pbi_agg,
          validation_report, notes, diff_checker>>

stripVars == <<val, result>>
cleanVars == <<uploaded_file, fs, temp_path, xls, cleaned_data>>
reportVars == <<cognos_df, pbi_df, dims, all_measures, cognos_agg, pbi_agg,
                validation_report, notes, diff_checker>>

None == [t |-> "none", s |-> <<>>, n |-> 0]

-----------------------------------------------------------------------------
(* Cell values *)

StrV(s) == [t |-> "str", s |-> s, n |-> 0]
IntV(k) == [t |-> "int", s |-> <<>>, n |-> k]
BoolV(b) == [t |-> "bool", s |-> <<>>, n |-> IF b THEN 1 ELSE 0]
FloatV(k) == [t |-> "float", s |-> <<>>, n |-> k]
NaN == [t |-> "nan", s |-> <<>>, n |-> 0]
ValueError == [t |-> "ValueError", s |-> <<>>, n |-> 0]

-----------------------------------------------------------------------------
(* Python str methods, character by character *)

Digits == <<"0", "1", "2", "3", "4", "5", "6", "7", "8", "9">>

IsDigitChar(c) == \E i \in 1..10 : Digits[i] = c

DigitValue(c) == (CHOOSE i \in 1..10 : Digits[i] = c) - 1

\* s.lstrip(chars) for a one-character argument, and s.strip() for whitespace
RECURSIVE LStripWhile(_, _)
LStripWhile(s, c) ==
    IF s # <<>> /\ Head(s) = c THEN LStripWhile(Tail(s), c) ELSE s

RECURSIVE RStripWhile(_, _)
RStripWhile(s, c) ==
    IF s # <<>> /\ s[Len(s)] = c THEN RStripWhile(SubSeq(s, 1, Len(s) - 1), c)
    ELSE s

lstrip(s, c) == LStripWhile(s, c)

strip(s) == RStripWhile(LStripWhile(s, " "), " ")

\* s.isdigit(): at least one character and every character a digit
isdigit(s) == s # <<>> /\ \A i \in 1..Len(s) : IsDigitChar(s[i])

\* the number a string of digits denotes, base 10
RECURSIVE DigitsToNat(_)
DigitsToNat(s) ==
    IF s = <<>> THEN 0
    ELSE 10 * DigitsToNat(SubSeq(s, 1, Len(s) - 1)) + DigitValue(s[Len(s)])

\* int(s): surrounding whitespace is ignored, then the text must be digits
\* (signs and underscores are outside the modelled alphabet)
PyInt(s) == IF isdigit(strip(s)) THEN IntV(DigitsToNat(strip(s))) ELSE ValueError

\* a or "0" for strings: the empty string is falsy
OrZero(s) == IF s = <<>> THEN <<"0">> ELSE s

\* the characters of the model in code-point order
Ascii ==
    <<" ", "-", ".", "0", "1", "2", "3", "4", "5", "6", "7", "8", "9",
      "A", "B", "C", "D", "E", "F", "G", "H", "I", "J", "K", "L", "M",
      "N", "O", "P", "Q", "R", "S", "T", "U", "V", "W", "X", "Y", "Z",
      "_",
      "a", "b", "c", "d", "e", "f", "g", "h", "i", "j", "k", "l", "m",
      "n", "o", "p", "q", "r", "s", "t", "u", "v", "w", "x", "y", "z">>

Ord(c) == CHOOSE i \in 1..Len(Ascii) : Ascii[i] = c

UpperChar(c) == IF Ord(c) >= 41 THEN Ascii[Ord(c) - 27] ELSE c

LowerChar(c) == IF Ord(c) >= 14 /\ Ord(c) <= 39 THEN Ascii[Ord(c) + 27] ELSE c

\* s.upper() and s.lower()
upper(s) == [i \in 1..Len(s) |-> UpperChar(s[i])]

lower(s) == [i \in 1..Len(s) |-> LowerChar(s[i])]

\* sub in s
Contains(s, sub) ==
    \E i \in 0..(Len(s) - Len(sub)) : SubSeq(s, i + 1, i + Len(sub)) = sub

\* s.endswith(suffix)
endswith(s, suffix) ==
    /\ Len(s) >= Len(suffix)
    /\ SubSeq(s, Len(s) - Len(suffix) + 1, Len(s)) = suffix

\* s < u for str: lexicographic by code point
RECURSIVE TextLess(_, _)
TextLess(s, u) ==
    IF u = <<>> THEN FALSE
    ELSE IF s = <<>> THEN TRUE
    ELSE IF Head(s) # Head(u) THEN Ord(Head(s)) < Ord(Head(u))
    ELSE TextLess(Tail(s), Tail(u))

\* the decimal digits of a natural number
RECURSIVE NatToDigits(_)
NatToDigits(k) ==
    IF k < 10 THEN <<Digits[k + 1]>>
    ELSE Append(NatToDigits(k \div 10), Digits[(k % 10) + 1])

\* str(v), as astype(str) applies it to every cell
PyStr(v) ==
    CASE v.t = "str" -> v.s
      [] v.t = "int" -> NatToDigits(v.n)
      [] v.t = "float" -> NatToDigits(v.n) \o <<".", "0">>
      [] v.t = "bool" -> IF v.n = 1 THEN <<"T", "r", "u", "e">>
                         ELSE <<"F", "a", "l", "s", "e">>
      [] v.t = "nan" -> <<"n", "a", "n">>

\* sep.join(parts)
RECURSIVE join(_, _)
join(sep, parts) ==
    IF parts = <<>> THEN <<>>
    ELSE IF Len(parts) = 1 THEN parts[1]
    ELSE parts[1] \o sep \o join(sep, Tail(parts))

\* the elements of a sequence
Range(f) == {f[i] : i \in DOMAIN f}

\* [x for x in seq if Test(x)]
RECURSIVE Filter(_, _)
Filter(seq, keep) ==
    IF seq = <<>> THEN <<>>
    ELSE IF Head(seq) \in keep THEN <<Head(seq)>> \o Filter(Tail(seq), keep)
    ELSE Filter(Tail(seq), keep)

\* every ordering of a finite set, for list(set(...)) whose order Python
\* does not define
Orderings(S) ==
    {f \in [1..Cardinality(S) -> S] : \A i, j \in DOMAIN f : i # j => f[i] # f[j]}

-----------------------------------------------------------------------------
(* strip_leading_zeros, src/model.py:10-13 *)

strip_leading_zeros(v) ==
    IF v.t = "str" /\ isdigit(lstrip(strip(v.s), "0"))
    THEN PyInt(OrZero(lstrip(v.s, "0")))
    ELSE v

\* Bound on the length of a text cell
MaxLen == 3

Chars == {"0", "1", "A", " "}

RECURSIVE TextsOfLen(_)
TextsOfLen(k) ==
    IF k = 0 THEN {<<>>}
    ELSE {Append(s, c) : s \in TextsOfLen(k - 1), c \in Chars}

Texts == UNION {TextsOfLen(k) : k \in 0..MaxLen}

CellValues == {StrV(s) : s \in Texts} \cup {IntV(k) : k \in {0, 7, 45}}
                  \cup {NaN, BoolV(TRUE)}

InitStrip ==
    /\ pc = "call"
    /\ val \in CellValues
    /\ result = None
    /\ uploaded_file = None /\ fs = {} /\ temp_path = None
    /\ xls = None /\ cleaned_data = None
    /\ cognos_df = None /\ pbi_df = None /\ dims = None /\ all_measures = None
    /\ cognos_agg = None /\ pbi_agg = None
    /\ validation_report = None /\ notes = <<>> /\ diff_checker = None

StripLeadingZeros ==
    /\ pc = "call"
    /\ result' = strip_leading_zeros(val)
    /\ pc' = "returned"
    /\ UNCHANGED <<val, cleanVars, reportVars>>

NextStrip == StripLeadingZeros

SpecStrip == InitStrip /\ [][NextStrip]_vars

\* C4: strip_leading_zeros maps every all-digit text with at least one leading
\* zero to the integer without the leading zeros (a text of only zeros to 0),
\* and returns text containing a non-digit character and every non-text value
\* unchanged.
C4_StripLeadingZerosContract ==
    pc = "returned" =>
        /\ (val.t = "str" /\ isdigit(val.s) /\ Head(val.s) = "0")
               => result = IntV(DigitsToNat(val.s))
        /\ (val.t = "str" /\ \E i \in 1..Len(val.s) : ~IsDigitChar(val.s[i]))
               => result = val
        /\ (val.t # "str") => result = val

-----------------------------------------------------------------------------
(* clean_numeric_excel, src/model.py:15-28 *)

\* Bound on the number of cells of a sheet
MaxCells == 2

SheetNames == {"Cognos", "PBI"}

SheetCells == {StrV(<<"0", "0", "7">>), StrV(<<"A">>), IntV(7)}

Sheets == UNION {[1..k -> SheetCells] : k \in 1..MaxCells}

\* a workbook: whether its bytes parse as xlsx, and its sheets
Workbooks ==
    {[valid |-> v, sheets |-> sh] :
        v \in BOOLEAN,
        sh \in UNION {[names -> Sheets] : names \in SUBSET SheetNames}}

TempNames == {"tmp0.xlsx"}

\* df.applymap(strip_leading_zeros)
applymap(df) == [i \in DOMAIN df |-> strip_leading_zeros(df[i])]

InitClean ==
    /\ pc = "call"
    /\ uploaded_file \in Workbooks
    /\ fs = {} /\ temp_path = None /\ xls = None /\ cleaned_data = None
    /\ val = None /\ result = None
    /\ cognos_df = None /\ pbi_df = None /\ dims = None /\ all_measures = None
    /\ cognos_agg = None /\ pbi_agg = None
    /\ validation_report = None /\ notes = <<>> /\ diff_checker = None

\* lines 16-18: NamedTemporaryFile(delete=False) is created and written
CreateTemp ==
    /\ pc = "call"
    /\ \E name \in TempNames \ fs :
          /\ fs' = fs \cup {name}
          /\ temp_path' = name
    /\ pc' = "staged"
    /\ UNCHANGED <<uploaded_file, xls, cleaned_data, stripVars, reportVars>>

\* line 20: pd.read_excel parses the staged file
ReadExcel ==
    /\ pc = "staged"
    /\ uploaded_file.valid
    /\ xls' = uploaded_file.sheets
    /\ pc' = "parsed"
    /\ UNCHANGED <<uploaded_file, fs, temp_path, cleaned_data, stripVars,
                   reportVars>>

\* line 20: pd.read_excel raises on bytes that are no workbook; the exception
\* leaves clean_numeric_excel at once
ReadExcelRaises ==
    /\ pc = "staged"
    /\ ~uploaded_file.valid
    /\ pc' = "raised"
    /\ UNCHANGED <<cleanVars, stripVars, reportVars>>

\* lines 22-25
CleanSheets ==
    /\ pc = "parsed"
    /\ cleaned_data' = [name \in DOMAIN xls |-> applymap(xls[name])]
    /\ pc' = "cleaned"
    /\ UNCHANGED <<uploaded_file, fs, temp_path, xls, stripVars, reportVars>>

\* line 27: os.remove(temp_path)
RemoveTemp ==
    /\ pc = "cleaned"
    /\ fs' = fs \ {temp_path}
    /\ pc' = "removed"
    /\ UNCHANGED <<uploaded_file, temp_path, xls, cleaned_data, stripVars,
                   reportVars>>

\* line 28
ReturnCleaned ==
    /\ pc = "removed"
    /\ pc' = "returned"
    /\ UNCHANGED <<cleanVars, stripVars, reportVars>>

NextClean ==
    \/ CreateTemp
    \/ ReadExcel
    \/ ReadExcelRaises
    \/ CleanSheets
    \/ RemoveTemp
    \/ ReturnCleaned

SpecClean == InitClean /\ [][NextClean]_vars

\* C7: once a call of clean_numeric_excel has ended, by return or by an error,
\* the temporary file it created no longer exists.
C7_TempFileDeletedWhenCallEnds ==
    pc \in {"returned", "raised"} => temp_path \notin fs

-----------------------------------------------------------------------------
(* generate_validation_report, src/model.py:57-109                         *)
(*                                                                         *)
(* A DataFrame is [columns, dtype, rows]: the column names in order, the   *)
(* dtype of each column, and the rows as functions from column name to     *)
(* cell. A column name is text (a sequence of characters).                 *)

unique_key == <<"u", "n", "i", "q", "u", "e", "_", "k", "e", "y">>
presence == <<"p", "r", "e", "s", "e", "n", "c", "e">>
SuffixCognos == <<"_", "C", "o", "g", "n", "o", "s">>
SuffixPBI == <<"_", "P", "B", "I">>
SuffixDiff == <<"_", "D", "i", "f", "f">>
NAN == <<"N", "A", "N">>

\* np.issubdtype(dtype, np.number)
IsNumber(dtype) == dtype \in {"int64", "float64"}

\* lines 59-60 without the col.lower() tests
NameHasIdOrKeyCaseSensitive(col) ==
    \/ Contains(col, <<"_", "I", "D">>)
    \/ Contains(col, <<"_", "K", "E", "Y">>)

\* lines 59-60: the tests on the column name
NameHasIdOrKey(col) ==
    \/ Contains(lower(col), <<"_", "i", "d">>)
    \/ Contains(lower(col), <<"_", "k", "e", "y">>)
    \/ Contains(col, <<"_", "I", "D">>)
    \/ Contains(col, <<"_", "K", "E", "Y">>)

\* lines 58-60
DimsByTextOrName(c, p) ==
    Filter(c.columns,
           {col \in Range(c.columns) :
               /\ col \in Range(p.columns)
               /\ (c.dtype[col] = "object" \/ NameHasIdOrKey(col))})

\* line 63
DimsNonNumeric(c, p) ==
    Filter(c.columns,
           {col \in Range(c.columns) :
               col \in Range(p.columns) /\ ~IsNumber(c.dtype[col])})

\* line 66
DimsAllShared(c, p) ==
    Filter(c.columns, {col \in Range(c.columns) : col \in Range(p.columns)})

\* lines 58-66 without lines 62-63
SelectDimsWithoutNonNumericStep(c, p) ==
    IF DimsByTextOrName(c, p) # <<>> THEN DimsByTextOrName(c, p)
    ELSE DimsAllShared(c, p)

\* lines 58-66: the value of dims when line 69 tests it
SelectDims(c, p) ==
    IF DimsByTextOrName(c, p) # <<>> THEN DimsByTextOrName(c, p)
    ELSE IF DimsNonNumeric(c, p) # <<>> THEN DimsNonNumeric(c, p)
    ELSE DimsAllShared(c, p)

\* lines 67 and 72: the messages shown
SelectNotes(c, p) ==
    IF DimsByTextOrName(c, p) = <<>> /\ DimsNonNumeric(c, p) = <<>>
    THEN <<"warning">> ELSE <<>>

\* lines 74-75: df[dims] = df[dims].fillna('NAN'); a column that held a
\* missing value becomes an object column
fillna_dims(df, d) ==
    [columns |-> df.columns,
     dtype |-> [col \in DOMAIN df.dtype |->
                   IF col \in Range(d) /\ \E i \in DOMAIN df.rows : df.rows[i][col] = NaN
                   THEN "object" ELSE df.dtype[col]],
     rows |-> [i \in DOMAIN df.rows |->
                  [col \in DOMAIN df.rows[i] |->
                      IF col \in Range(d) /\ df.rows[i][col] = NaN
                      THEN StrV(NAN) ELSE df.rows[i][col]]]]

\* lines 77-78
Measures(df, d) ==
    Filter(df.columns,
           {col \in Range(df.columns) :
               col \notin Range(d) /\ IsNumber(df.dtype[col])})

\* order of two cells of one column, as groupby sorts the group keys
\* (the cells of a dimension column of the model are of one type)
CellLess(u, v) ==
    IF u.t = "str" /\ v.t = "str" THEN TextLess(u.s, v.s) ELSE u.n < v.n

RECURSIVE TupleLess(_, _)
TupleLess(u, v) ==
    IF u = <<>> \/ v = <<>> THEN FALSE
    ELSE IF Head(u) # Head(v) THEN CellLess(Head(u), Head(v))
    ELSE TupleLess(Tail(u), Tail(v))

RECURSIVE SortTuples(_)
SortTuples(S) ==
    IF S = {} THEN <<>>
    ELSE LET m == CHOOSE x \in S : \A y \in S \ {x} : TupleLess(x, y)
         IN <<m>> \o SortTuples(S \ {m})

DimTuple(row, d) == [i \in 1..Len(d) |-> row[d[i]]]

\* sum of a measure over the rows of one group; missing cells are skipped
RECURSIVE SumRows(_, _, _, _)
SumRows(rows, d, g, m) ==
    IF rows = <<>> THEN 0
    ELSE (IF DimTuple(Head(rows), d) = g /\ Head(rows)[m] # NaN
          THEN Head(rows)[m].n ELSE 0) + SumRows(Tail(rows), d, g, m)

\* line 84 reading one dimension column only
KeyOfLastDimension(tuple) == upper(PyStr(tuple[Len(tuple)]))

\* line 84: the key of one aggregated row
KeyOf(tuple) == upper(join(<<"-">>, [i \in 1..Len(tuple) |-> PyStr(tuple[i])]))

\* lines 81-85: df.groupby(dims)[all_measures].sum().reset_index() with its
\* unique_key column; one row per distinct dimension tuple, in sorted order
Aggregate(df, d, ms) ==
    LET groups == SortTuples({DimTuple(df.rows[i], d) : i \in DOMAIN df.rows})
    IN [columns |-> d \o ms \o <<unique_key>>,
        rows |-> [g \in DOMAIN groups |->
            [col \in Range(d) \cup Range(ms) \cup {unique_key} |->
                IF col = unique_key THEN StrV(KeyOf(groups[g]))
                ELSE IF col \in Range(ms)
                     THEN IntV(SumRows(df.rows, d, groups[g], col))
                ELSE groups[g][CHOOSE i \in 1..Len(d) : d[i] = col]]]]

Keys(agg) == {agg.rows[i][unique_key] : i \in DOMAIN agg.rows}

\* key.map(dict(zip(agg['unique_key'], agg[col]))): of several rows with one
\* key the dict keeps the last; a key the dict lacks maps to NaN
MapKey(agg, col, key) ==
    LET hits == {i \in DOMAIN agg.rows : agg.rows[i][unique_key] = key}
    IN IF hits = {} THEN NaN
       ELSE agg.rows[CHOOSE i \in hits : \A j \in hits : j <= i][col]

\* lines 93-97 with the two one-sided labels exchanged
PresenceSidesSwapped(ca, pa, key) ==
    IF key \in Keys(ca) /\ key \in Keys(pa) THEN "Present in Both"
    ELSE IF key \in Keys(ca) THEN "Present in PBI"
    ELSE "Present in Cognos"

\* lines 93-97
Presence(ca, pa, key) ==
    IF key \in Keys(ca) /\ key \in Keys(pa) THEN "Present in Both"
    ELSE IF key \in Keys(ca) THEN "Present in Cognos"
    ELSE "Present in PBI"

\* line 87 as list + list, without the sets
KeyListsConcatenated(ca, pa) ==
    {[i \in 1..(Len(ca.rows) + Len(pa.rows)) |->
         IF i <= Len(ca.rows) THEN ca.rows[i][unique_key]
         ELSE pa.rows[i - Len(ca.rows)][unique_key]]}

\* line 87: list(set(...) | set(...)), in any of the orders a set may give
KeyLists(ca, pa) == Orderings(Keys(ca) \cup Keys(pa))

\* validation_report[col] = value, for one row
Assign(row, col, value) ==
    [c \in DOMAIN row \cup {col} |-> IF c = col THEN value ELSE row[c]]

\* lines 89-91. Whether fillna(..., inplace=True) on validation_report[dim]
\* reaches the frame depends on the pandas version (copy-on-write): inplace
\* says whether it does.
RECURSIVE AssignDims(_, _, _, _, _, _)
AssignDims(row, d, ca, pa, key, inplace) ==
    IF d = <<>> THEN row
    ELSE LET fromCognos == MapKey(ca, Head(d), key)
             cell == IF fromCognos = NaN /\ inplace
                     THEN MapKey(pa, Head(d), key) ELSE fromCognos
         IN AssignDims(Assign(row, Head(d), cell), Tail(d), ca, pa, key, inplace)

fillna0(cell) == IF cell = NaN THEN 0 ELSE cell.n

\* line 102 with the operands exchanged
MeasureDiffSourceMinusTarget(p, c) == IntV(fillna0(c) - fillna0(p))

\* line 102
MeasureDiff(p, c) == IntV(fillna0(p) - fillna0(c))

\* lines 99-102
RECURSIVE AssignMeasures(_, _, _, _, _)
AssignMeasures(row, ms, ca, pa, key) ==
    IF ms = <<>> THEN row
    ELSE LET m == Head(ms)
             c == MapKey(ca, m, key)
             p == MapKey(pa, m, key)
             r1 == Assign(row, m \o SuffixCognos, c)
             r2 == Assign(r1, m \o SuffixPBI, p)
             r3 == Assign(r2, m \o SuffixDiff, MeasureDiff(p, c))
         IN AssignMeasures(r3, Tail(ms), ca, pa, key)

\* lines 104-106
RECURSIVE MeasureColumns(_)
MeasureColumns(ms) ==
    IF ms = <<>> THEN <<>>
    ELSE <<Head(ms) \o SuffixCognos, Head(ms) \o SuffixPBI,
           Head(ms) \o SuffixDiff>> \o MeasureColumns(Tail(ms))

column_order(d, ms) == <<unique_key>> \o d \o <<presence>> \o MeasureColumns(ms)

\* lines 87-107 for one key
ReportRow(key, d, ms, ca, pa, inplace) ==
    LET r0 == [c \in {unique_key} |-> key]
        r1 == AssignDims(r0, d, ca, pa, key, inplace)
        r2 == Assign(r1, presence, Presence(ca, pa, key))
    IN AssignMeasures(r2, ms, ca, pa, key)

\* lines 87-107: keyOrder is the order list(set | set) gave the keys
Report(keyOrder, d, ms, ca, pa, inplace) ==
    [columns |-> column_order(d, ms),
     rows |-> [i \in DOMAIN keyOrder |->
                  ReportRow(keyOrder[i], d, ms, ca, pa, inplace)]]

-----------------------------------------------------------------------------
(* generate_diff_checker, src/model.py:124-138                             *)
(* A row of the returned table is [name, value]: its 'Diff Column Name'    *)
(* and its 'Sum of Difference'.                                            *)

TypeError == [t |-> "TypeError", s |-> <<>>, n |-> 0]

AllRowsLabel ==
    <<"A", "l", "l", " ", "r", "o", "w", "s", " ", "p", "r", "e", "s", "e",
      "n", "t", " ", "i", "n", " ", "b", "o", "t", "h">>

\* line 125
diff_columns(report) ==
    Filter(report.columns,
           {col \in Range(report.columns) : endswith(col, SuffixDiff)})

RECURSIVE SumCells(_)
SumCells(cells) ==
    IF cells = <<>> THEN 0
    ELSE (IF Head(cells) = NaN THEN 0 ELSE Head(cells).n) + SumCells(Tail(cells))

RECURSIVE ConcatCells(_)
ConcatCells(cells) ==
    IF cells = <<>> THEN <<>> ELSE Head(cells).s \o ConcatCells(Tail(cells))

\* line 129: validation_report[col].sum(). A numeric column sums, skipping
\* missing cells; an object column of text concatenates; text mixed with
\* missing cells cannot be added and raises TypeError.
SeriesSum(cells) ==
    IF \A i \in DOMAIN cells : cells[i].t \in {"int", "float", "bool", "nan"}
    THEN IntV(SumCells(cells))
    ELSE IF \A i \in DOMAIN cells : cells[i].t = "str"
    THEN StrV(ConcatCells(cells))
    ELSE TypeError

ColumnCells(report, col) == [i \in DOMAIN report.rows |-> report.rows[i][col]]

\* lines 127-130
DiffSums(report) ==
    [i \in DOMAIN diff_columns(report) |->
        [name |-> diff_columns(report)[i],
         value |-> SeriesSum(ColumnCells(report, diff_columns(report)[i]))]]

\* lines 132-135
presence_summary(report) ==
    [name |-> AllRowsLabel,
     value |-> IF \A i \in DOMAIN report.rows :
                      report.rows[i][presence] = "Present in Both"
               THEN "Yes" ELSE "No"]

\* lines 127-138
DiffChecker(report) == Append(DiffSums(report), presence_summary(report))

-----------------------------------------------------------------------------
(* The datasets the calls are run on *)

\* Bound on the number of rows of a dataset
MaxRows == 2

col_r == <<"r">>
col_c_Id == <<"c", "_", "I", "d">>
col_p_KEY == <<"p", "_", "K", "E", "Y">>
col_n_Diff == <<"n", "_", "D", "i", "f", "f">>
col_a == <<"a">>
col_b == <<"b">>
col_s == <<"s">>

\* Datasets that vary in columns and column types, with one row each.
SchemaColumns ==
    {<<col_r, col_c_Id, col_n_Diff>>, <<col_p_KEY, col_r>>}

Dtypes == {"object", "int64", "bool"}

\* line 78 reads the PBI dtypes only through np.issubdtype(dtype, np.number)
PbiDtypes == {"object", "int64"}

\* the cell of a one-row dataset: v selects one of two values of the dtype
SampleCell(dtype, v) ==
    CASE dtype = "object" -> IF v = 1 THEN StrV(<<"x">>) ELSE StrV(<<"y">>)
      [] dtype = "int64" -> IntV(v)
      [] dtype = "bool" -> BoolV(v = 1)

SchemaFrames(universe, dtypes, v) ==
    UNION {{[columns |-> Filter(universe, cols),
             dtype |-> dt,
             rows |-> <<[col \in cols |-> SampleCell(dt[col], v)]>>] :
                dt \in [cols -> dtypes]} : cols \in SUBSET Range(universe)}

SchemaPairs ==
    UNION {SchemaFrames(u, Dtypes, 1)
               \X (SchemaFrames(u, PbiDtypes, 1) \cup SchemaFrames(u, PbiDtypes, 2)) :
              u \in SchemaColumns}

\* Datasets of one schema (two text columns and a numeric one) that vary in
\* their rows.
DataRow(a, b, s) == (col_a :> a) @@ (col_b :> b) @@ (col_s :> s)

\* The rows a dataset is made of: two that differ only by case, two that
\* differ only in where the '-' stands, and missing cells.
RowPool ==
    <<DataRow(StrV(<<"x">>), StrV(<<"Y">>), NaN),
      DataRow(StrV(<<"X">>), StrV(<<"Y">>), IntV(2)),
      DataRow(StrV(<<"X", "-">>), StrV(<<"Y">>), IntV(4)),
      DataRow(StrV(<<"X">>), StrV(<<"-", "Y">>), IntV(8)),
      DataRow(NaN, StrV(<<"Y">>), IntV(16))>>

\* The row lists of 1..MaxRows pool rows, rows repeated at will. groupby
\* sorts the groups and sums within them, so the order of the input rows
\* does not reach any output; the lists are taken in pool order.
RowLists ==
    UNION {{[i \in 1..k |-> RowPool[f[i]]] :
               f \in {g \in [1..k -> DOMAIN RowPool] :
                         \A i \in 1..(k - 1) : g[i] <= g[i + 1]}} :
              k \in 1..MaxRows}

\* a numeric column is int64 unless it holds a missing cell
DataFrames ==
    {[columns |-> <<col_a, col_b, col_s>>,
      dtype |-> (col_a :> "object") @@ (col_b :> "object")
                    @@ (col_s :> IF \E i \in DOMAIN rows : rows[i][col_s] = NaN
                                 THEN "float64" ELSE "int64"),
      rows |-> rows] :
        rows \in RowLists}

DataPairs == DataFrames \X DataFrames

Init ==
    /\ pc = "call"
    /\ \E pair \in SchemaPairs \cup DataPairs :
          cognos_df = pair[1] /\ pbi_df = pair[2]
    /\ dims = None /\ all_measures = None
    /\ cognos_agg = None /\ pbi_agg = None
    /\ validation_report = None /\ notes = <<>> /\ diff_checker = None
    /\ val = None /\ result = None
    /\ uploaded_file = None /\ fs = {} /\ temp_path = None
    /\ xls = None /\ cleaned_data = None

\* lines 57-109, when dims is not empty on line 69
GenerateValidationReport ==
    /\ pc = "call"
    /\ SelectDims(cognos_df, pbi_df) # <<>>
    /\ LET d == SelectDims(cognos_df, pbi_df)
           c == fillna_dims(cognos_df, d)
           p == fillna_dims(pbi_df, d)
       IN \E ms \in Orderings(Range(Measures(c, d)) \cap Range(Measures(p, d))),
             inplace \in BOOLEAN :
            LET ca == Aggregate(c, d, ms)
                pa == Aggregate(p, d, ms)
            IN \E keyOrder \in KeyLists(ca, pa) :
                 /\ dims' = d
                 /\ notes' = SelectNotes(cognos_df, pbi_df) \o <<"info">>
                 /\ cognos_df' = c
                 /\ pbi_df' = p
                 /\ all_measures' = ms
                 /\ cognos_agg' = ca
                 /\ pbi_agg' = pa
                 /\ validation_report' = Report(keyOrder, d, ms, ca, pa, inplace)
    /\ pc' = "reported"
    /\ UNCHANGED <<diff_checker, stripVars, cleanVars>>

\* lines 57-70, when no column is shared: line 70 raises ValueError
GenerateValidationReportRaises ==
    /\ pc = "call"
    /\ SelectDims(cognos_df, pbi_df) = <<>>
    /\ dims' = <<>>
    /\ notes' = SelectNotes(cognos_df, pbi_df)
    /\ pc' = "no_dimensions"
    /\ UNCHANGED <<cognos_df, pbi_df, all_measures, cognos_agg, pbi_agg,
                   validation_report, diff_checker, stripVars, cleanVars>>

\* lines 124-138
GenerateDiffChecker ==
    /\ pc = "reported"
    /\ \A i \in DOMAIN DiffSums(validation_report) :
          DiffSums(validation_report)[i].value # TypeError
    /\ diff_checker' = DiffChecker(validation_report)
    /\ pc' = "summarised"
    /\ UNCHANGED <<cognos_df, pbi_df, dims, all_measures, cognos_agg, pbi_agg,
                   validation_report, notes, stripVars, cleanVars>>

\* lines 124-130, when a column's sum raises
GenerateDiffCheckerRaises ==
    /\ pc = "reported"
    /\ \E i \in DOMAIN DiffSums(validation_report) :
          DiffSums(validation_report)[i].value = TypeError
    /\ pc' = "sum_failed"
    /\ UNCHANGED <<reportVars, stripVars, cleanVars>>

Next ==
    \/ GenerateValidationReport
    \/ GenerateValidationReportRaises
    \/ GenerateDiffChecker
    \/ GenerateDiffCheckerRaises

Spec == Init /\ [][Next]_vars

-----------------------------------------------------------------------------
(* Properties of the reconciliation table *)

HasReport == pc \in {"reported", "summarised", "sum_failed"}

ReportRows == {validation_report.rows[i] : i \in DOMAIN validation_report.rows}

\* the cells an aggregated table holds for a key and a column
AggCells(agg, col, key) ==
    {agg.rows[i][col] : i \in {j \in DOMAIN agg.rows : agg.rows[j][unique_key] = key}}

\* C1: in every row of the reconciliation table and for every measure m,
\* m_Diff is the row's target value minus the row's source value, a side
\* whose aggregate lacks the row's key being stored as missing and counted
\* as 0.
C1_DiffIsTargetMinusSource ==
    HasReport =>
        \A row \in ReportRows : \A m \in Range(all_measures) :
            LET key == row[unique_key]
                source == row[m \o SuffixCognos]
                target == row[m \o SuffixPBI]
                inSource == key \in Keys(cognos_agg)
                inTarget == key \in Keys(pbi_agg)
            IN /\ IF inSource THEN source \in AggCells(cognos_agg, m, key) /\ source # NaN
                  ELSE source = NaN
               /\ IF inTarget THEN target \in AggCells(pbi_agg, m, key) /\ target # NaN
                  ELSE target = NaN
               /\ row[m \o SuffixDiff].n
                     = (IF inTarget THEN target.n ELSE 0)
                           - (IF inSource THEN source.n ELSE 0)

\* a table with a measure whose rows show a source-only key, a target-only
\* key and a key of both sides with a non-zero difference
C1_Witness ==
    /\ HasReport
    /\ all_measures # <<>>
    /\ \E r1, r2, r3 \in ReportRows : \E m \in Range(all_measures) :
          /\ r1[m \o SuffixCognos] = NaN /\ r1[m \o SuffixDiff].n > 0
          /\ r2[m \o SuffixPBI] = NaN /\ r2[m \o SuffixDiff].n < 0
          /\ r3[m \o SuffixCognos] # NaN /\ r3[m \o SuffixPBI] # NaN
          /\ r3[m \o SuffixDiff].n # 0

\* C2: every reconciliation row carries exactly one of the three presence
\* values, fixed by which aggregates hold its key: 'Present in Both' iff both,
\* 'Present in Cognos' iff only SOURCE_AGG, 'Present in PBI' iff only TARGET_AGG.
C2_PresenceByKeyMembership ==
    HasReport =>
        \A row \in ReportRows :
            LET inSource == row[unique_key] \in Keys(cognos_agg)
                inTarget == row[unique_key] \in Keys(pbi_agg)
            IN /\ row[presence] \in {"Present in Both", "Present in Cognos",
                                     "Present in PBI"}
               /\ row[presence] = "Present in Both" <=> (inSource /\ inTarget)
               /\ row[presence] = "Present in Cognos" <=> (inSource /\ ~inTarget)
               /\ row[presence] = "Present in PBI" <=> (~inSource /\ inTarget)

\* a table that shows all three presence values
C2_Witness ==
    /\ HasReport
    /\ {row[presence] : row \in ReportRows}
          = {"Present in Both", "Present in Cognos", "Present in PBI"}

\* C3: the key list of the reconciliation table has no duplicate, is as long
\* as the union of the SOURCE_AGG and TARGET_AGG keys is large, and holds only
\* keys of SOURCE_AGG or TARGET_AGG.
C3_KeyListIsTheUnion ==
    HasReport =>
        LET keys == [i \in DOMAIN validation_report.rows |->
                        validation_report.rows[i][unique_key]]
        IN /\ \A i, j \in DOMAIN keys : i # j => keys[i] # keys[j]
           /\ Len(keys) = Cardinality(Keys(cognos_agg) \cup Keys(pbi_agg))
           /\ \A i \in DOMAIN keys :
                 keys[i] \in Keys(cognos_agg) \/ keys[i] \in Keys(pbi_agg)

\* a table whose two aggregates share a key and each hold a key of their own
C3_Witness ==
    /\ HasReport
    /\ Keys(cognos_agg) \cap Keys(pbi_agg) # {}
    /\ Keys(cognos_agg) \ Keys(pbi_agg) # {}
    /\ Keys(pbi_agg) \ Keys(cognos_agg) # {}
    /\ Len(validation_report.rows) = 3

-----------------------------------------------------------------------------
(* Properties of the dimension selection *)

SharedColumns(c, p) == Range(c.columns) \cap Range(p.columns)

\* the name contains "_id" or "_key", whatever the case of its letters
NamedIdOrKey(col) ==
    \E i \in 1..Len(col) : \E n \in {3, 4} :
        /\ i + n - 1 <= Len(col)
        /\ lower(SubSeq(col, i, i + n - 1))
              \in {<<"_", "i", "d">>, <<"_", "k", "e", "y">>}

TextOrKeyColumns(c, p) ==
    {col \in SharedColumns(c, p) : c.dtype[col] = "object" \/ NamedIdOrKey(col)}

NonNumericColumns(c, p) ==
    {col \in SharedColumns(c, p) : c.dtype[col] \notin {"int64", "float64"}}

FirstNonEmpty(c, p) ==
    IF TextOrKeyColumns(c, p) # {} THEN TextOrKeyColumns(c, p)
    ELSE IF NonNumericColumns(c, p) # {} THEN NonNumericColumns(c, p)
    ELSE SharedColumns(c, p)

\* C5: the dimensions a call of generate_validation_report selects are fixed
\* by the column names and dtypes of the two datasets it is given: they are
\* the first non-empty of (1) the shared columns that are textual or named
\* "_id"/"_key", (2) the shared non-numeric columns, (3) all shared columns;
\* the call fails, with no dimensions and no table, exactly when no column
\* is shared.
C5_DimensionFallback ==
    [][pc = "call" =>
          IF SharedColumns(cognos_df, pbi_df) = {}
          THEN pc' = "no_dimensions" /\ dims' = <<>> /\ validation_report' = None
          ELSE /\ pc' = "reported"
               /\ validation_report' # None
               /\ Range(dims') = FirstNonEmpty(cognos_df, pbi_df)
               /\ Len(dims') = Cardinality(FirstNonEmpty(cognos_df, pbi_df))]_vars

\* a call that fell back to step (2)
C5_Witness ==
    /\ pc = "reported"
    /\ dims # <<>>
    /\ \A i \in DOMAIN dims :
          cognos_df.dtype[dims[i]] = "bool" /\ ~NamedIdOrKey(dims[i])
    /\ \E col \in SharedColumns(cognos_df, pbi_df) : col \notin Range(dims)

\* C8 as stated: a selected Dimension Set is non-empty and holds a
\* numeric-typed column only when the datasets share no column that is not
\* numeric-typed.
C8_NumericOnlyWithoutAlternative ==
    pc = "reported" =>
        /\ dims # <<>>
        /\ \A i \in DOMAIN dims :
              (IsNumber(cognos_df.dtype[dims[i]]) /\ IsNumber(pbi_df.dtype[dims[i]]))
                  => ~\E col \in SharedColumns(cognos_df, pbi_df) :
                         ~IsNumber(cognos_df.dtype[col]) /\ ~IsNumber(pbi_df.dtype[col])

\* C8 amended: a selected Dimension Set is non-empty and holds a column that
\* is numeric-typed in the Cognos dataset only when that column is named
\* "_id"/"_key" or the datasets share no column that is not numeric-typed in
\* the Cognos dataset.
C8_NumericOnlyByNameOrWithoutAlternative ==
    pc = "reported" =>
        /\ dims # <<>>
        /\ \A i \in DOMAIN dims :
              IsNumber(cognos_df.dtype[dims[i]])
                  => \/ NamedIdOrKey(dims[i])
                     \/ ~\E col \in SharedColumns(cognos_df, pbi_df) :
                            ~IsNumber(cognos_df.dtype[col])

\* a Dimension Set with a numeric column named "_Id" beside a shared text
\* column
C8_Witness ==
    /\ pc = "reported"
    /\ \E i, j \in DOMAIN dims :
          /\ IsNumber(cognos_df.dtype[dims[i]]) /\ NamedIdOrKey(dims[i])
          /\ cognos_df.dtype[dims[j]] = "object"

-----------------------------------------------------------------------------
(* Properties of the aggregated tables *)

AggregatedTables == {cognos_agg, pbi_agg}

\* C9 as stated: within each aggregated table no two distinct aggregated rows
\* have the same unique_key.
C9_KeysUniquePerAggregatedRow ==
    HasReport =>
        \A agg \in AggregatedTables : \A i, j \in DOMAIN agg.rows :
            i # j => agg.rows[i][unique_key] # agg.rows[j][unique_key]

\* text without the separator '-' that upper-casing leaves as it is
PlainUpperText(cell) ==
    /\ cell.t = "str"
    /\ \A k \in 1..Len(cell.s) : cell.s[k] # "-"
    /\ upper(cell.s) = cell.s

PlainUpperRow(row) == \A k \in DOMAIN dims : PlainUpperText(row[dims[k]])

\* C9 amended: within each aggregated table no two distinct aggregated rows
\* whose dimension values are all text without '-' that upper-casing leaves
\* unchanged have the same unique_key.
C9_KeysUniqueForPlainUpperText ==
    HasReport =>
        \A agg \in AggregatedTables : \A i, j \in DOMAIN agg.rows :
            (i # j /\ PlainUpperRow(agg.rows[i]) /\ PlainUpperRow(agg.rows[j]))
                => agg.rows[i][unique_key] # agg.rows[j][unique_key]

\* an aggregated table of several dimensions with two rows of such text
C9_Witness ==
    /\ HasReport
    /\ Len(dims) > 1
    /\ \E i, j \in DOMAIN cognos_agg.rows :
          /\ i # j
          /\ PlainUpperRow(cognos_agg.rows[i])
          /\ PlainUpperRow(cognos_agg.rows[j])

-----------------------------------------------------------------------------
(* Properties of the summary *)

RECURSIVE SumOver(_, _)
SumOver(S, f) ==
    IF S = {} THEN 0
    ELSE LET x == CHOOSE y \in S : TRUE IN f[x] + SumOver(S \ {x}, f)

\* the sum of the m_Diff cells of the reconciliation table
DiffTotal(m) ==
    SumOver(DOMAIN validation_report.rows,
            [i \in DOMAIN validation_report.rows |->
                validation_report.rows[i][m \o SuffixDiff].n])

\* the sum of column m over the rows of a dataset
InputTotal(df, m) ==
    SumOver(DOMAIN df.rows, [i \in DOMAIN df.rows |-> df.rows[i][m].n])

\* C6: the table generate_diff_checker returns has one row per measure of
\* the Measure Set, with the sum of that measure's Diff column, and then one
\* last row that says 'Yes' if every reconciliation row is 'Present in Both'
\* and 'No' otherwise.
C6_OneRowPerMeasureAndPresence ==
    pc = "summarised" =>
        /\ Len(diff_checker) = Len(all_measures) + 1
        /\ \A m \in Range(all_measures) :
              \E i \in 1..(Len(diff_checker) - 1) :
                  /\ diff_checker[i].name = m \o SuffixDiff
                  /\ diff_checker[i].value = IntV(DiffTotal(m))
                  /\ \A j \in 1..(Len(diff_checker) - 1) :
                        diff_checker[j].name = m \o SuffixDiff => j = i
        /\ diff_checker[Len(diff_checker)].name = AllRowsLabel
        /\ diff_checker[Len(diff_checker)].value
              = (IF \A row \in ReportRows : row[presence] = "Present in Both"
                 THEN "Yes" ELSE "No")

IntegerMeasures ==
    \A df \in {cognos_df, pbi_df} : \A m \in Range(all_measures) :
        /\ df.dtype[m] = "int64"
        /\ \A i \in DOMAIN df.rows : df.rows[i][m].t = "int"

\* C10: for datasets with integer measures, the 'Sum of Difference' reported
\* for a measure m is the sum of m over the rows of the PBI dataset minus the
\* sum of m over the rows of the Cognos dataset.
C10_TotalsConserved ==
    (pc = "summarised" /\ IntegerMeasures) =>
        \A m \in Range(all_measures) :
            \E i \in 1..(Len(diff_checker) - 1) :
                /\ diff_checker[i].name = m \o SuffixDiff
                /\ diff_checker[i].value.t = "int"
                /\ diff_checker[i].value.n
                      = InputTotal(pbi_df, m) - InputTotal(cognos_df, m)

====
